---- MODULE Spec2Model ----
(***************************************************************************)
(* DiamondBCH: the transaction builders of the liquid-staking and          *)
(* yield-split facets (stake.ts, unstake.ts, yield-split.ts) over a UTXO   *)
(* ledger.                                                                 *)
(*                                                                         *)
(* A script run is two steps: it reads the unspent outputs, validates and  *)
(* builds a transaction (one action per script), and `.send()` hands the   *)
(* transaction to the broadcast service, which accepts or rejects it.      *)
(* The ledger is an external service.  Of its rules the model keeps the    *)
(* one the scripts rely on for exclusivity: a transaction is accepted only *)
(* while every input it names is unspent.  Every other rule of the ledger  *)
(* and of the covenant scripts is over-approximated: any built transaction *)
(* may also be rejected.                                                   *)
(*                                                                         *)
(* A commitment is a sequence of bytes (two hex characters of the          *)
(* program's hex string each).  A byte takes Radix values.                 *)
(***************************************************************************)
EXTENDS Integers, Sequences, FiniteSets, TLC

\* ------------------------------------------------------------------ bounds

\* Number of values of one commitment byte.  The program's bytes have 256;
\* the model keeps every field width and scales the radix, so that 8- and
\* 12-byte values stay within the model checker's integers.
Radix == 5

\* Transactions the ledger accepts in one behaviour of sequential runs.
MaxTx == 3

\* Transactions the ledger accepts in one behaviour of concurrent runs.
MaxRaceTx == 3

\* Transactions the ledger accepts after the two stakes that open a run of
\* the yield-split script.
MaxYieldTx == 2

\* Transactions the ledger accepts after the stake that opens a run of the
\* claim action.
MaxClaimTx == 3

\* Transactions the ledger accepts in a run of the DEX script.
MaxDexTx == 2

\* Transactions accepted on the wallet that holds a foreign NFT.
MaxForeignTx == 2

\* Transactions accepted in the runs with out-of-range input.
MaxRangeTx == 2

\* --------------------------------------------------------------- constants

AmountWidth == 8
ExpiryWidth == 4
DustSats == 1000
FeeMargin == 2000
BasisPoints == 10000
TickWidth == 4
PoolValue == 1000
DefaultFee == 30
MinStake == 10000
InitialReserve == 100000

MockCategory == "cat01"

\* Two script runs may be in flight at once.
Procs == {1, 2}

\* STAKE_AMOUNT values tried: one below the documented minimum, the default.
StakeAmounts == {9999, 50000}

\* EXPIRY values tried by split.
Expiries == {5, 9}

\* The EXPIRY both shells use when they race.
RaceExpiries == {9}

\* CURRENT_TIME values tried by redeem and claim.
CurrentTimes == {4, 5}

\* AMOUNT0 / AMOUNT1 pairs tried by add and remove.
DexAmounts == {<<100000, 100000>>, <<1000, 100000>>}

\* TICK_LOWER / TICK_UPPER pairs tried by add: a proper range, an empty
\* one, an inverted one, and one whose upper tick needs a fifth byte.
TickPairs == {<<0, 100>>, <<100, 100>>, <<100, 0>>, <<0, Radix * Radix * Radix * Radix>>}

\* AMOUNT_IN and MIN_AMOUNT_OUT values tried by swap.
AmountsIn == {10000, 333}
MinAmountsOut == {9900, 9971}

\* FEE_AMOUNT0 / FEE_AMOUNT1 pairs tried by collect.
FeeAmounts == {<<100, 50>>}

\* YIELD_RATE values tried by claim, in basis points.
YieldRates == {500, 2500}

\* Satoshis of the wallet's two plain outputs before the first run.
WalletSats == <<60000, 12000>>

\* An outpoint that names no output of the ledger.
AbsentPoint == <<99, 0>>

\* ------------------------------------------------------------------- codec

RECURSIVE Pow(_, _)
Pow(b, e) == IF e = 0 THEN 1 ELSE b * Pow(b, e - 1)

\* A variant that writes any number, keeping its low digits.
InRangeWrapping(n, w) == TRUE

\* Buffer.writeBigUInt64BE / writeBigUInt64LE / writeUInt32BE throw a
\* RangeError outside [0, 2^(8w) - 1].
InRange(n, w) == n >= 0 /\ n < Pow(Radix, w)

EncodeBE(n, w) == [i \in 1..w |-> (n \div Pow(Radix, w - i)) % Radix]

EncodeLE(n, w) == [i \in 1..w |-> (n \div Pow(Radix, i - 1)) % Radix]

\* BigInt('0x' + hex): the whole string read as one big-endian number.
RECURSIVE HexValue(_)
HexValue(c) ==
    IF c = <<>> THEN 0
    ELSE HexValue(SubSeq(c, 1, Len(c) - 1)) * Radix + c[Len(c)]

\* BigInt('0x') is a SyntaxError.
HexParses(c) == c # <<>>

\* commitment.slice(2*from, 2*to) in bytes.
Slice(c, from, to) ==
    SubSeq(c, from + 1, IF to < Len(c) THEN to ELSE Len(c))

\* stake.ts: stakeAmountBytes.writeBigUInt64LE(stakeAmount)
StakeCommitment(amount) == EncodeLE(amount, AmountWidth)

buildPTCommitment(principal, expiry) ==
    EncodeBE(principal, AmountWidth) \o EncodeBE(expiry, ExpiryWidth)

buildYTCommitment(yieldAccrued, expiry) ==
    EncodeBE(yieldAccrued, AmountWidth) \o EncodeBE(expiry, ExpiryWidth)

\* parsePTCommitment(...).principal
parsePrincipal(c) == HexValue(Slice(c, 0, AmountWidth))

\* parsePTCommitment(...).expiry: parseInt(slice(16, 24), 16)
parseExpiry(c) == HexValue(Slice(c, AmountWidth, AmountWidth + ExpiryWidth))

\* ------------------------------------------------------------------ ledger

Token(cat, cap, com) ==
    [category |-> cat, capability |-> cap, commitment |-> com]

NoToken == Token("", "", <<>>)

Utxo(txid, vout, owner, sats, token) ==
    [txid |-> txid, vout |-> vout, owner |-> owner, satoshis |-> sats,
     token |-> token]

Output(to, amount, token) == [to |-> to, amount |-> amount, token |-> token]

\* A built transaction: the script, the amount it moves, the reserve value
\* it read (0 when it reads none), the state tokens it looked up, the
\* outputs it passed to .from() (a set, and how many were listed), and the
\* outputs it passed to .to().  A claim also records the CURRENT_TIME and
\* YIELD_RATE it was run with, a merge the order in which it listed its two
\* inputs, a DEX transaction the arguments of the contract function.
Tx(op, amount, reserve, nft, inputs, ninputs, outputs) ==
    [op |-> op, amount |-> amount, reserve |-> reserve, nft |-> nft,
     inputs |-> inputs, ninputs |-> ninputs, outputs |-> outputs,
     time |-> 0, rate |-> 0, listed |-> <<>>, args |-> <<>>]

NoTx == Tx("none", 0, 0, {}, {}, 0, <<>>)

VARIABLES
    utxos,      \* the ledger's unspent outputs
    chain,      \* the accepted transactions, in order; a txid is its index
    pending,    \* per run: the transaction it holds at `.send()`
    status,     \* per run: idle, or built (at `.send()`)
    lastExit    \* the last run that ended without sending: script and why

vars == <<utxos, chain, pending, status, lastExit>>

NoExit == [op |-> "none", why |-> "none"]

Init ==
    /\ utxos =
         {Utxo(0, 0, "contract", InitialReserve,
               Token(MockCategory, "minting", <<>>))}
         \cup {Utxo(0, i, "user", WalletSats[i], NoToken) :
                  i \in 1..Len(WalletSats)}
    /\ chain = <<>>
    /\ pending = [p \in Procs |-> NoTx]
    /\ status = [p \in Procs |-> "idle"]
    /\ lastExit = NoExit

\* contract.getUtxos()
ContractUtxos == {u \in utxos : u.owner = "contract"}

\* provider.getUtxos(ownerAddress)
UserUtxos == {u \in utxos : u.owner = "user"}

\* contractUtxos.find(u => u.token?.category && capability === 'minting'):
\* the candidates; the provider's order decides which is found.
MintingUtxos ==
    {u \in ContractUtxos :
        u.token.category # "" /\ u.token.capability = "minting"}

\* The NFT_TXID/NFT_VOUT (PT_, YT_) a caller may pass: any token output of
\* the wallet, or an outpoint that is not there.
OutPoints ==
    {<<u.txid, u.vout>> : u \in {w \in UserUtxos : w.token.category # ""}}
        \cup {AbsentPoint}

\* A run ends without sending: process.exit(1), or an exception caught by
\* the script's try/catch.
\* A variant in which a failed check leaves the run at its `.send()`.
ExitAtSend(p, op, why) ==
    /\ lastExit' = [op |-> op, why |-> why]
    /\ status' = [status EXCEPT ![p] = "built"]
    /\ UNCHANGED pending

Exit(p, op, why) ==
    /\ lastExit' = [op |-> op, why |-> why]
    /\ UNCHANGED <<status, pending>>

\* The run reaches `.send()` with the transaction tx.
Build(p, tx) ==
    /\ status' = [status EXCEPT ![p] = "built"]
    /\ pending' = [pending EXCEPT ![p] = tx]
    /\ UNCHANGED lastExit

\* A run starts when the previous run of the same shell has ended.
CanRun(p) == status[p] = "idle"

\* -------------------------------------------------------------------- stake

\* userUtxos.find(u => Number(u.satoshis) >= Number(stakeAmount) + 2000)
FundingUtxos(amount) ==
    {u \in UserUtxos : u.satoshis >= amount + FeeMargin}

\* .from({ txid, vout, value, token: undefined }) of the funding output
StakeInputs(m, f) == {f}

StakeOutputs(m, amount) ==
    << Output("contract", m.satoshis + amount,
              Token(m.token.category, "minting", <<>>)),
       Output("user", DustSats,
              Token(m.token.category, "none", StakeCommitment(amount))) >>

StakeTx(m, f, amount) ==
    Tx("stake", amount, m.satoshis, {}, StakeInputs(m, f), 1,
       StakeOutputs(m, amount))

Stake(p, amount) ==
    /\ CanRun(p)
    /\ IF MintingUtxos = {} THEN Exit(p, "stake", "NoMintingNft")
       ELSE IF UserUtxos = {} THEN Exit(p, "stake", "NoWalletUtxos")
       ELSE IF FundingUtxos(amount) = {} THEN Exit(p, "stake", "NoFunding")
       ELSE IF ~InRange(amount, AmountWidth) THEN Exit(p, "stake", "Error")
       ELSE \E m \in MintingUtxos : \E f \in FundingUtxos(amount) :
                Build(p, StakeTx(m, f, amount))
    /\ UNCHANGED <<utxos, chain>>

\* ------------------------------------------------------------------ unstake

\* userUtxos.find(txid, vout, category of the minting NFT, capability none)
UnstakeNft(m, point) ==
    {u \in UserUtxos :
        /\ u.txid = point[1] /\ u.vout = point[2]
        /\ u.token.category = m.token.category
        /\ u.token.capability = "none"}

\* A variant that names no input, leaving the choice to the library.
UnstakeInputsNone(nft) == {}

\* .from({ txid, vout, value, token }) of the receipt NFT
UnstakeInputs(nft) == {nft}

\* A variant that pays out without debiting the reserve.
UnstakeOutputsKeepReserve(m, stakedAmount) ==
    << Output("contract", m.satoshis,
              Token(m.token.category, "minting", <<>>)),
       Output("user", stakedAmount, NoToken) >>

\* A variant that pays out and hands a receipt of the amount back.
UnstakeOutputsReceiptBack(m, stakedAmount) ==
    << Output("contract", m.satoshis - stakedAmount,
              Token(m.token.category, "minting", <<>>)),
       Output("user", stakedAmount, NoToken),
       Output("user", DustSats,
              Token(m.token.category, "none",
                    EncodeBE(stakedAmount, AmountWidth))) >>

UnstakeOutputs(m, stakedAmount) ==
    << Output("contract", m.satoshis - stakedAmount,
              Token(m.token.category, "minting", <<>>)),
       Output("user", stakedAmount, NoToken) >>

UnstakeTx(m, nft, stakedAmount) ==
    Tx("unstake", stakedAmount, m.satoshis, {nft}, UnstakeInputs(nft),
       Cardinality(UnstakeInputs(nft)), UnstakeOutputs(m, stakedAmount))

\* A variant without the balance check.
ReserveCoversAlways(m, stakedAmount) == TRUE

\* the negation of: Number(mintingUtxo.satoshis) < Number(stakedAmount)
ReserveCovers(m, stakedAmount) == ~(m.satoshis < stakedAmount)

Unstake(p, point) ==
    /\ CanRun(p)
    /\ IF MintingUtxos = {} THEN Exit(p, "unstake", "NoMintingNft")
       ELSE \E m \in MintingUtxos :
            IF UnstakeNft(m, point) = {} THEN Exit(p, "unstake", "NftNotFound")
            ELSE \E nft \in UnstakeNft(m, point) :
                 IF ~HexParses(nft.token.commitment) THEN Exit(p, "unstake", "Error")
                 ELSE LET stakedAmount == HexValue(nft.token.commitment) IN
                      IF ~ReserveCovers(m, stakedAmount)
                      THEN Exit(p, "unstake", "InsufficientReserve")
                      ELSE Build(p, UnstakeTx(m, nft, stakedAmount))
    /\ UNCHANGED <<utxos, chain>>

\* -------------------------------------------------------------- yield-split

\* userUtxos.find(txid, vout, capability none): no category is compared.
FindNft(point) ==
    {u \in UserUtxos :
        /\ u.txid = point[1] /\ u.vout = point[2]
        /\ u.token.capability = "none"}

\* A variant that lists no input, so the receipt outlives its split.
SplitInputsNone(nft) == {}

SplitInputs(nft) == {nft}

\* A variant whose YT starts with the principal as accrued yield.
SplitOutputsYieldPrincipal(nft, principal, expiry) ==
    << Output("user", DustSats,
              Token(nft.token.category, "none",
                    buildPTCommitment(principal, expiry))),
       Output("user", DustSats,
              Token(nft.token.category, "none",
                    buildYTCommitment(principal, expiry))) >>

SplitOutputs(nft, principal, expiry) ==
    << Output("user", DustSats,
              Token(nft.token.category, "none",
                    buildPTCommitment(principal, expiry))),
       Output("user", DustSats,
              Token(nft.token.category, "none",
                    buildYTCommitment(0, expiry))) >>

SplitTx(nft, principal, expiry) ==
    Tx("split", principal, 0, {nft}, SplitInputs(nft),
       Cardinality(SplitInputs(nft)), SplitOutputs(nft, principal, expiry))

handleSplit(p, point, expiry) ==
    /\ CanRun(p)
    /\ IF FindNft(point) = {} THEN Exit(p, "split", "NftNotFound")
       ELSE \E nft \in FindNft(point) :
            IF ~HexParses(nft.token.commitment) THEN Exit(p, "split", "Error")
            ELSE LET principal == HexValue(nft.token.commitment) IN
                 IF ~InRange(principal, AmountWidth)
                     \/ ~InRange(expiry, ExpiryWidth)
                 THEN Exit(p, "split", "Error")
                 ELSE Build(p, SplitTx(nft, principal, expiry))
    /\ UNCHANGED <<utxos, chain>>

MergeInputs(pt, yt) == {pt, yt}

\* A variant that keeps the PT's 12-byte commitment on the receipt.
MergeOutputsKeepExpiry(pt, principal) ==
    << Output("user", DustSats,
              Token(pt.token.category, "none", pt.token.commitment)) >>

\* lstBchCommitment.writeBigUInt64BE(ptData.principal)
MergeOutputs(pt, principal) ==
    << Output("user", DustSats,
              Token(pt.token.category, "none",
                    EncodeBE(principal, AmountWidth))) >>

MergeTx(pt, yt, principal) ==
    [Tx("merge", principal, 0, {pt, yt}, MergeInputs(pt, yt), 2,
        MergeOutputs(pt, principal))
        EXCEPT !.listed = <<pt, yt>>]

handleMerge(p, ptPoint, ytPoint) ==
    /\ CanRun(p)
    /\ IF FindNft(ptPoint) = {} \/ FindNft(ytPoint) = {}
       THEN Exit(p, "merge", "NftNotFound")
       ELSE \E pt \in FindNft(ptPoint) : \E yt \in FindNft(ytPoint) :
            IF ~HexParses(Slice(pt.token.commitment, 0, AmountWidth))
                \/ ~HexParses(Slice(yt.token.commitment, 0, AmountWidth))
            THEN Exit(p, "merge", "Error")
            ELSE Build(p, MergeTx(pt, yt, parsePrincipal(pt.token.commitment)))
    /\ UNCHANGED <<utxos, chain>>

\* A variant that also holds the PT back at its expiry.
NotYetMaturedAtExpiry(currentTime, c) ==
    /\ Slice(c, AmountWidth, AmountWidth + ExpiryWidth) # <<>>
    /\ currentTime <= parseExpiry(c)

\* currentTime < ptData.expiry, where parseInt('') is NaN and every
\* comparison with NaN is false.
NotYetMatured(currentTime, c) ==
    /\ Slice(c, AmountWidth, AmountWidth + ExpiryWidth) # <<>>
    /\ currentTime < parseExpiry(c)

\* A variant that lists no input.
RedeemInputsNone(pt) == {}

RedeemInputs(pt) == {pt}

RedeemOutputs(principal) == << Output("user", principal, NoToken) >>

RedeemTx(pt, principal) ==
    Tx("redeem", principal, 0, {pt}, RedeemInputs(pt),
       Cardinality(RedeemInputs(pt)), RedeemOutputs(principal))

handleRedeemPT(p, point, currentTime) ==
    /\ CanRun(p)
    /\ IF FindNft(point) = {} THEN Exit(p, "redeem", "NftNotFound")
       ELSE \E pt \in FindNft(point) :
            IF ~HexParses(Slice(pt.token.commitment, 0, AmountWidth))
            THEN Exit(p, "redeem", "Error")
            ELSE IF NotYetMatured(currentTime, pt.token.commitment)
            THEN Exit(p, "redeem", "NotYetMatured")
            ELSE Build(p, RedeemTx(pt, parsePrincipal(pt.token.commitment)))
    /\ UNCHANGED <<utxos, chain>>

\* currentTime >= ytData.expiry; false when the expiry is NaN.
Matured(currentTime, c) ==
    /\ Slice(c, AmountWidth, AmountWidth + ExpiryWidth) # <<>>
    /\ currentTime >= parseExpiry(c)

\* const elapsed = currentTime
Elapsed(currentTime) == currentTime

\* BigInt(x) throws unless x is an integer.
YieldIsInteger(currentTime, yieldRate) ==
    (Elapsed(currentTime) * yieldRate) % BasisPoints = 0

\* A variant that deducts the increment.
NewYieldDeducted(yieldAccrued, currentTime, yieldRate) ==
    yieldAccrued - (Elapsed(currentTime) * yieldRate) \div BasisPoints

\* ytData.yieldAccrued + BigInt(Number(elapsed) * yieldRate / 10000)
NewYieldAccrued(yieldAccrued, currentTime, yieldRate) ==
    yieldAccrued + (Elapsed(currentTime) * yieldRate) \div BasisPoints

\* A variant that writes no expiry on the YT it re-emits.
ExpiryDropped(c) == 0

\* writeUInt32BE(NaN) writes 0.
ExpiryOrZero(c) ==
    IF Slice(c, AmountWidth, AmountWidth + ExpiryWidth) = <<>> THEN 0
    ELSE parseExpiry(c)

ClaimInputs(yt) == {yt}

\* A variant that burns the YT without paying its yield.
ClaimBurnOutputsUnpaid(yieldAccrued) == << Output("user", 0, NoToken) >>

\* After expiry: the accrued yield as BCH, no token output.
ClaimBurnOutputs(yieldAccrued) == << Output("user", yieldAccrued, NoToken) >>

\* Before expiry: the YT again, with the new yield.
ClaimUpdateOutputs(yt, newYieldAccrued) ==
    << Output("user", DustSats,
              Token(yt.token.category, "none",
                    buildYTCommitment(newYieldAccrued,
                                      ExpiryOrZero(yt.token.commitment)))) >>

ClaimTx(yt, amount, outputs, currentTime, yieldRate) ==
    [Tx("claim", amount, 0, {yt}, ClaimInputs(yt), 1, outputs)
        EXCEPT !.time = currentTime, !.rate = yieldRate]

handleClaimYield(p, point, currentTime, yieldRate) ==
    /\ CanRun(p)
    /\ IF FindNft(point) = {} THEN Exit(p, "claim", "NftNotFound")
       ELSE \E yt \in FindNft(point) :
            LET c == yt.token.commitment IN
            IF ~HexParses(Slice(c, 0, AmountWidth))
            THEN Exit(p, "claim", "Error")
            ELSE LET yieldAccrued == parsePrincipal(c) IN
                 IF Matured(currentTime, c)
                 THEN Build(p, ClaimTx(yt, yieldAccrued,
                                       ClaimBurnOutputs(yieldAccrued),
                                       currentTime, yieldRate))
                 ELSE IF ~YieldIsInteger(currentTime, yieldRate)
                 THEN Exit(p, "claim", "Error")
                 ELSE LET new == NewYieldAccrued(yieldAccrued, currentTime,
                                                 yieldRate) IN
                      IF ~InRange(new, AmountWidth)
                      THEN Exit(p, "claim", "Error")
                      ELSE Build(p, ClaimTx(yt, new,
                                            ClaimUpdateOutputs(yt, new),
                                            currentTime, yieldRate))
    /\ UNCHANGED <<utxos, chain>>

\* ------------------------------------------------------------------- ledger

\* Every listed input is an unspent output, and none is listed twice.
Unspent(tx) ==
    /\ tx.inputs \subseteq utxos
    /\ Cardinality(tx.inputs) = tx.ninputs

Created(tx, txid) ==
    {Utxo(txid, i - 1, tx.outputs[i].to, tx.outputs[i].amount,
          tx.outputs[i].token) : i \in 1..Len(tx.outputs)}

\* `.send()`: the broadcast service accepts the transaction.
AcceptTx(p, max) ==
    /\ status[p] = "built"
    /\ Len(chain) < max
    /\ Unspent(pending[p])
    /\ utxos' = (utxos \ pending[p].inputs)
                   \cup Created(pending[p], Len(chain) + 1)
    /\ chain' = Append(chain, pending[p])
    /\ status' = [status EXCEPT ![p] = "idle"]
    /\ pending' = [pending EXCEPT ![p] = NoTx]
    /\ UNCHANGED lastExit

Accept(p) == AcceptTx(p, MaxTx)

AcceptRace(p) == AcceptTx(p, MaxRaceTx)

\* `.send()`: the broadcast service returns a rejection; the script's catch
\* prints it.
Reject(p) ==
    /\ status[p] = "built"
    /\ status' = [status EXCEPT ![p] = "idle"]
    /\ pending' = [pending EXCEPT ![p] = NoTx]
    /\ lastExit' = [op |-> pending[p].op, why |-> "Rejected"]
    /\ UNCHANGED <<utxos, chain>>

\* One run: any of the scripts, up to its `.send()`.
Run(p) ==
    \/ \E amount \in StakeAmounts : Stake(p, amount)
    \/ \E point \in OutPoints : Unstake(p, point)
    \/ \E point \in OutPoints : \E expiry \in Expiries :
          handleSplit(p, point, expiry)
    \/ \E ptPoint \in OutPoints : \E ytPoint \in OutPoints :
          handleMerge(p, ptPoint, ytPoint)
    \/ \E point \in OutPoints : \E t \in CurrentTimes :
          handleRedeemPT(p, point, t)

\* The scripts run one after the other from one shell.
Next ==
    \/ Run(1)
    \/ Accept(1)
    \/ Reject(1)

Spec == Init /\ [][Next]_vars

\* Two shells: a second run may start before the first has sent.
NextRace ==
    \/ \E p \in Procs : \E amount \in StakeAmounts : Stake(p, amount)
    \/ \E p \in Procs : \E point \in OutPoints : Unstake(p, point)
    \/ \E p \in Procs : \E point \in OutPoints : \E expiry \in RaceExpiries :
          handleSplit(p, point, expiry)
    \/ \E p \in Procs : AcceptRace(p)
    \/ \E p \in Procs : Reject(p)

SpecRace == Init /\ [][NextRace]_vars

\* The yield-split script on a wallet that has staked twice: the state of
\* Spec after stake of 50000 funded by the first wallet output and stake of
\* 9999 funded by the second, each read against the newest reserve output.
FirstStake ==
    StakeTx(Utxo(0, 0, "contract", InitialReserve,
                 Token(MockCategory, "minting", <<>>)),
            Utxo(0, 1, "user", WalletSats[1], NoToken), 50000)

SecondStake ==
    StakeTx(Utxo(1, 0, "contract", InitialReserve + 50000,
                 Token(MockCategory, "minting", <<>>)),
            Utxo(0, 2, "user", WalletSats[2], NoToken), 9999)

InitYield ==
    /\ utxos = {Utxo(0, 0, "contract", InitialReserve,
                     Token(MockCategory, "minting", <<>>))}
                  \cup Created(FirstStake, 1) \cup Created(SecondStake, 2)
    /\ chain = <<FirstStake, SecondStake>>
    /\ pending = [p \in Procs |-> NoTx]
    /\ status = [p \in Procs |-> "idle"]
    /\ lastExit = NoExit

AcceptYield(p) == AcceptTx(p, 2 + MaxYieldTx)

NextYield ==
    \/ \E point \in OutPoints : \E expiry \in Expiries :
          handleSplit(1, point, expiry)
    \/ \E ptPoint \in OutPoints : \E ytPoint \in OutPoints :
          handleMerge(1, ptPoint, ytPoint)
    \/ \E point \in OutPoints : \E t \in CurrentTimes :
          handleRedeemPT(1, point, t)
    \/ AcceptYield(1)
    \/ Reject(1)

SpecYield == InitYield /\ [][NextYield]_vars

\* All four actions of the yield-split script on a wallet that has staked
\* once: the state of Spec after FirstStake.
InitClaim ==
    /\ utxos = {Utxo(0, 0, "contract", InitialReserve,
                     Token(MockCategory, "minting", <<>>)),
                Utxo(0, 2, "user", WalletSats[2], NoToken)}
                  \cup Created(FirstStake, 1)
    /\ chain = <<FirstStake>>
    /\ pending = [p \in Procs |-> NoTx]
    /\ status = [p \in Procs |-> "idle"]
    /\ lastExit = NoExit

AcceptClaim(p) == AcceptTx(p, 1 + MaxClaimTx)

NextClaim ==
    \/ \E point \in OutPoints : \E expiry \in Expiries :
          handleSplit(1, point, expiry)
    \/ \E point \in OutPoints : \E t \in CurrentTimes :
          \E yieldRate \in YieldRates : handleClaimYield(1, point, t, yieldRate)
    \/ \E ptPoint \in OutPoints : \E ytPoint \in OutPoints :
          handleMerge(1, ptPoint, ytPoint)
    \/ \E point \in OutPoints : \E t \in CurrentTimes :
          handleRedeemPT(1, point, t)
    \/ AcceptClaim(1)
    \/ Reject(1)

SpecClaim == InitClaim /\ [][NextClaim]_vars

\* The unstake and yield-split scripts on a wallet that has staked once and
\* that also holds an NFT of another category, as provider.getUtxos returns
\* whatever was sent to the owner's address.
ForeignCategory == "cat02"

ForeignNft ==
    Utxo(0, 3, "user", DustSats,
         Token(ForeignCategory, "none", buildYTCommitment(0, 5)))

InitForeign ==
    /\ utxos = {Utxo(0, 0, "contract", InitialReserve,
                     Token(MockCategory, "minting", <<>>)),
                Utxo(0, 2, "user", WalletSats[2], NoToken),
                ForeignNft}
                  \cup Created(FirstStake, 1)
    /\ chain = <<FirstStake>>
    /\ pending = [p \in Procs |-> NoTx]
    /\ status = [p \in Procs |-> "idle"]
    /\ lastExit = NoExit

AcceptForeign(p) == AcceptTx(p, 1 + MaxForeignTx)

NextForeign ==
    \/ \E point \in OutPoints : Unstake(1, point)
    \/ \E point \in OutPoints : \E expiry \in Expiries :
          handleSplit(1, point, expiry)
    \/ \E ptPoint \in OutPoints : \E ytPoint \in OutPoints :
          handleMerge(1, ptPoint, ytPoint)
    \/ \E point \in OutPoints : \E t \in CurrentTimes :
          handleRedeemPT(1, point, t)
    \/ AcceptForeign(1)
    \/ Reject(1)

SpecForeign == InitForeign /\ [][NextForeign]_vars

\* ---------------------------------------------------------------------- dex

\* BigInt division truncates toward zero.
TruncDiv(a, b) == IF a >= 0 THEN a \div b ELSE 0 - ((0 - a) \div b)

PositionWidth == TickWidth + TickWidth + AmountWidth

\* A variant that writes the liquidity little-endian, as stake.ts writes
\* its receipt.
buildPositionCommitmentLE(tickLower, tickUpper, liquidity) ==
    EncodeBE(tickLower, TickWidth) \o EncodeBE(tickUpper, TickWidth)
        \o EncodeLE(liquidity, AmountWidth)

buildPositionCommitment(tickLower, tickUpper, liquidity) ==
    EncodeBE(tickLower, TickWidth) \o EncodeBE(tickUpper, TickWidth)
        \o EncodeBE(liquidity, AmountWidth)

parsePositionCommitment(c) ==
    [tickLower |-> HexValue(Slice(c, 0, TickWidth)),
     tickUpper |-> HexValue(Slice(c, TickWidth, TickWidth + TickWidth)),
     liquidity |-> HexValue(Slice(c, TickWidth + TickWidth, PositionWidth))]

\* A variant that takes the larger amount.
calculateLiquidityMax(amount0, amount1) ==
    IF amount0 < amount1 THEN amount1 ELSE amount0

calculateLiquidity(amount0, amount1) ==
    IF amount0 < amount1 THEN amount0 ELSE amount1

\* A variant that rounds the fee up and charges one direction only.
calculateSwapOutputRoundedUp(amountIn, zeroForOne, fee) ==
    IF zeroForOne
    THEN amountIn - (amountIn * fee + BasisPoints - 1) \div BasisPoints
    ELSE amountIn

calculateSwapOutput(amountIn, zeroForOne, fee) ==
    amountIn - TruncDiv(amountIn * fee, BasisPoints)

\* The wallet of the DEX script before its first run.
InitDex ==
    /\ utxos = {Utxo(0, i, "user", WalletSats[i], NoToken) :
                    i \in 1..Len(WalletSats)}
    /\ chain = <<>>
    /\ pending = [p \in Procs |-> NoTx]
    /\ status = [p \in Procs |-> "idle"]
    /\ lastExit = NoExit

DexTx(op, nft, inputs, outputs, args) ==
    [Tx(op, 0, 0, nft, inputs, Cardinality(inputs), outputs)
        EXCEPT !.args = args]

AddOutputs(commitment) ==
    << Output("contract", PoolValue, NoToken),
       Output("user", 0, Token("position", "none", commitment)) >>

addLiquidity(p, amount0, amount1, tickLower, tickUpper) ==
    /\ CanRun(p)
    /\ LET liquidity == calculateLiquidity(amount0, amount1) IN
       IF ~InRange(tickLower, TickWidth) \/ ~InRange(tickUpper, TickWidth)
           \/ ~InRange(liquidity, AmountWidth)
       THEN Exit(p, "add", "Error")
       ELSE Build(p, DexTx("add", {}, {},
                           AddOutputs(buildPositionCommitment(
                                          tickLower, tickUpper, liquidity)),
                           <<amount0, amount1, tickLower, tickUpper>>))
    /\ UNCHANGED <<utxos, chain>>

\* userUtxos.find(capability none, commitment of 32 hex characters):
\* neither POSITION_TXID nor POSITION_VOUT nor the category is compared.
FindPosition ==
    {u \in UserUtxos :
        /\ u.token.capability = "none"
        /\ Len(u.token.commitment) = PositionWidth}

RemoveOutputs(amount0, amount1) ==
    << Output("contract", PoolValue, NoToken),
       Output("user", amount0, Token("token0", "", <<>>)),
       Output("user", amount1, Token("token1", "", <<>>)) >>

removeLiquidity(p, point, amount0, amount1) ==
    /\ CanRun(p)
    /\ IF FindPosition = {} THEN Exit(p, "remove", "NoPosition")
       ELSE \E positionUtxo \in FindPosition :
            Build(p, DexTx("remove", {positionUtxo}, {positionUtxo},
                           RemoveOutputs(amount0, amount1),
                           <<amount0, amount1>>))
    /\ UNCHANGED <<utxos, chain>>

SwapOutputs(zeroForOne, expectedOut) ==
    << Output("contract", PoolValue, NoToken),
       Output("user", expectedOut,
              Token(IF zeroForOne THEN "token1" ELSE "token0", "", <<>>)) >>

swap(p, zeroForOne, amountIn, minAmountOut) ==
    /\ CanRun(p)
    /\ Build(p, DexTx("swap", {}, {},
                      SwapOutputs(zeroForOne,
                                  calculateSwapOutput(amountIn, zeroForOne,
                                                      DefaultFee)),
                      <<zeroForOne, amountIn, minAmountOut>>))
    /\ UNCHANGED <<utxos, chain>>

\* A variant that re-emits the position with its liquidity cleared.
CollectOutputsCleared(positionCommitment, feeAmount0, feeAmount1) ==
    << Output("contract", PoolValue, NoToken),
       Output("user", 0,
              Token("position", "none",
                    buildPositionCommitment(
                        parsePositionCommitment(positionCommitment).tickLower,
                        parsePositionCommitment(positionCommitment).tickUpper,
                        0))),
       Output("user", feeAmount0, Token("token0", "", <<>>)),
       Output("user", feeAmount1, Token("token1", "", <<>>)) >>

CollectOutputs(positionCommitment, feeAmount0, feeAmount1) ==
    << Output("contract", PoolValue, NoToken),
       Output("user", 0, Token("position", "none", positionCommitment)),
       Output("user", feeAmount0, Token("token0", "", <<>>)),
       Output("user", feeAmount1, Token("token1", "", <<>>)) >>

collect(p, point, feeAmount0, feeAmount1) ==
    /\ CanRun(p)
    /\ IF FindPosition = {} THEN Exit(p, "collect", "NoPosition")
       ELSE \E positionUtxo \in FindPosition :
            Build(p, DexTx("collect", {positionUtxo}, {positionUtxo},
                           CollectOutputs(positionUtxo.token.commitment,
                                          feeAmount0, feeAmount1),
                           <<feeAmount0, feeAmount1>>))
    /\ UNCHANGED <<utxos, chain>>

AcceptDex(p) == AcceptTx(p, MaxDexTx)

NextDex ==
    \/ \E a \in DexAmounts : \E t \in TickPairs :
          addLiquidity(1, a[1], a[2], t[1], t[2])
    \/ \E point \in OutPoints : \E a \in DexAmounts :
          removeLiquidity(1, point, a[1], a[2])
    \/ \E zeroForOne \in BOOLEAN : \E amountIn \in AmountsIn :
          \E minAmountOut \in MinAmountsOut :
              swap(1, zeroForOne, amountIn, minAmountOut)
    \/ \E point \in OutPoints : \E f \in FeeAmounts :
          collect(1, point, f[1], f[2])
    \/ AcceptDex(1)
    \/ Reject(1)

SpecDex == InitDex /\ [][NextDex]_vars

\* ------------------------------------------------------ out-of-range input

\* The scripts run with environment values on either side of each width, on
\* a wallet that has staked once: the state of Spec after FirstStake.
RangeExpiries == {5, 0 - 1, Pow(Radix, ExpiryWidth)}

RangeRates == {2500, 0 - 2500, 20000}

RangeTicks ==
    {<<0, 100>>, <<0 - 1, 100>>, <<0, Pow(Radix, TickWidth)>>}

RangeAmounts ==
    {<<1000, 100000>>, <<0 - 5, 100000>>,
     <<Pow(Radix, AmountWidth), Pow(Radix, AmountWidth)>>}

AcceptRange(p) == AcceptTx(p, 1 + MaxRangeTx)

NextRange ==
    \/ \E point \in OutPoints : \E expiry \in RangeExpiries :
          handleSplit(1, point, expiry)
    \/ \E point \in OutPoints : \E t \in CurrentTimes :
          \E yieldRate \in RangeRates : handleClaimYield(1, point, t, yieldRate)
    \/ \E a \in RangeAmounts : \E t \in RangeTicks :
          addLiquidity(1, a[1], a[2], t[1], t[2])
    \/ AcceptRange(1)
    \/ Reject(1)

SpecRange == InitClaim /\ [][NextRange]_vars

\* ------------------------------------------------------------------ claims

\* Every transaction a run has built: those waiting at `.send()` and those
\* the ledger accepted.
BuiltTxs ==
    {pending[p] : p \in {q \in Procs : status[q] = "built"}}
        \cup {chain[i] : i \in DOMAIN chain}

RECURSIVE SumSats(_)
SumSats(S) ==
    IF S = {} THEN 0
    ELSE LET u == CHOOSE x \in S : TRUE IN u.satoshis + SumSats(S \ {u})

RECURSIVE SumAmounts(_)
SumAmounts(outs) ==
    IF outs = <<>> THEN 0
    ELSE outs[1].amount + SumAmounts(Tail(outs))

\* The only fee a script names: stake's "stake amount + fees" margin.
DeclaredFee(tx) == IF tx.op = "stake" THEN FeeMargin ELSE 0

IsMinting(t) == t.category # "" /\ t.capability = "minting"

\* The receipt a stake transaction of the chain created (its output 1).
IsStakeReceipt(u) ==
    /\ u.txid \in DOMAIN chain
    /\ chain[u.txid].op = "stake"
    /\ u.vout = 1

\* The reserve value after the first k accepted transactions, were each
\* applied to the value its predecessor left.
RECURSIVE ReserveAfter(_)
ReserveAfter(k) ==
    IF k = 0 THEN InitialReserve
    ELSE ReserveAfter(k - 1)
           + (IF chain[k].op = "stake" THEN chain[k].amount
              ELSE IF chain[k].op = "unstake" THEN 0 - chain[k].amount
              ELSE 0)

\* C1: for every transaction a script builds, the value attached to its
\* inputs equals the value attached to its outputs plus the declared fee.
C1_ValueConserved ==
    \A tx \in BuiltTxs :
        SumSats(tx.inputs) = SumAmounts(tx.outputs) + DeclaredFee(tx)

\* C2: unstaking the receipt a stake of amount a produced pays exactly a,
\* and, run against the reserve that stake left, restores the reserve value
\* from before the stake.
C2_StakeUnstakeInverse ==
    \A tx \in BuiltTxs : \A n \in tx.nft :
        (tx.op = "unstake" /\ IsStakeReceipt(n)) =>
            /\ tx.outputs[2].amount = chain[n.txid].amount
            /\ (tx.reserve = chain[n.txid].outputs[1].amount
                   => tx.outputs[1].amount = chain[n.txid].reserve)

\* C3: every commitment a script writes is the big-endian fixed-width
\* encoding of its fields, so the readers (BigInt('0x' + hex), parseInt)
\* decode the values that were written.
C3_BigEndianCommitments ==
    \A tx \in BuiltTxs :
        /\ tx.op = "stake" =>
              /\ tx.outputs[2].token.commitment
                    = EncodeBE(tx.amount, AmountWidth)
              /\ HexValue(tx.outputs[2].token.commitment) = tx.amount
        /\ tx.op = "merge" =>
              /\ Len(tx.outputs[1].token.commitment) = AmountWidth
              /\ HexValue(tx.outputs[1].token.commitment) = tx.amount
        /\ tx.op = "split" =>
              /\ Len(tx.outputs[1].token.commitment)
                    = AmountWidth + ExpiryWidth
              /\ Len(tx.outputs[2].token.commitment)
                    = AmountWidth + ExpiryWidth
              /\ parsePrincipal(tx.outputs[1].token.commitment) = tx.amount
              /\ parsePrincipal(tx.outputs[2].token.commitment) = 0
              /\ parseExpiry(tx.outputs[1].token.commitment) \in Expiries
              /\ parseExpiry(tx.outputs[2].token.commitment)
                    = parseExpiry(tx.outputs[1].token.commitment)

\* C4: of the accepted transactions, no two selected the same state token:
\* when two runs pick one receipt, at most one is accepted, and the
\* receipt's amount is paid out by at most one unstake.
C4_SingleSpend ==
    \A i \in DOMAIN chain : \A j \in DOMAIN chain :
        i # j => chain[i].nft \cap chain[j].nft = {}

\* C4 witness: a run waits at `.send()` with an unstake or split of a
\* receipt that an accepted unstake has already consumed and paid out.
C4_Witness ==
    \E p \in Procs : \E i \in DOMAIN chain :
        /\ status[p] = "built"
        /\ pending[p].op \in {"unstake", "split"}
        /\ chain[i].op = "unstake"
        /\ chain[i].amount > 0
        /\ chain[i].nft \cap pending[p].nft # {}

\* C5: every accepted stake or unstake computed its reserve output from
\* the reserve value its predecessors left (no lost update), so the reserve
\* is the initial value plus the staked minus the unstaked amounts.
C5_NoLostUpdate ==
    \A i \in DOMAIN chain :
        chain[i].op \in {"stake", "unstake"} =>
            /\ chain[i].reserve = ReserveAfter(i - 1)
            /\ chain[i].outputs[1].amount = ReserveAfter(i)

\* C6: the minting-capability token is among the inputs and among the
\* outputs of every stake, unstake, split and merge transaction.
C6_MintingOnBothSides ==
    \A tx \in BuiltTxs :
        tx.op \in {"stake", "unstake", "split", "merge"} =>
            /\ \E u \in tx.inputs : IsMinting(u.token)
            /\ \E i \in DOMAIN tx.outputs : IsMinting(tx.outputs[i].token)

\* C7: stake with reserve R and amount a builds exactly two outputs: the
\* reserve token with R + a (minting, same category, empty commitment) and
\* a receipt (capability none, same category) whose commitment decodes to a.
C7_StakeOutputs ==
    \A tx \in BuiltTxs :
        tx.op = "stake" =>
            /\ Len(tx.outputs) = 2
            /\ tx.outputs[1].to = "contract"
            /\ tx.outputs[1].amount = tx.reserve + tx.amount
            /\ tx.outputs[1].token = Token(MockCategory, "minting", <<>>)
            /\ tx.outputs[2].token.category = MockCategory
            /\ tx.outputs[2].token.capability = "none"
            /\ Len(tx.outputs[2].token.commitment) = AmountWidth
            /\ HexValue(tx.outputs[2].token.commitment) = tx.amount

\* C8: no stake transaction is built for an amount below the minimum stake.
C8_MinimumStake ==
    \A tx \in BuiltTxs : tx.op = "stake" => tx.amount >= MinStake

C10_NoTxBuilt ==
    \A tx \in BuiltTxs : \A n \in tx.nft :
        tx.op = "unstake" => HexValue(n.token.commitment) <= tx.reserve

\* The step in which unstake gives up for lack of reserve changes neither
\* the ledger nor any run's transaction.
C10_ExitStep ==
    (lastExit' # lastExit
        /\ lastExit' = [op |-> "unstake", why |-> "InsufficientReserve"])
    => UNCHANGED <<utxos, chain, pending, status>>

\* C10: unstake of a receipt recording more than the reserve R fails
\* before anything is sent and leaves reserve and receipt unspent.
C10_InsufficientReserve == [](C10_NoTxBuilt) /\ [][C10_ExitStep]_vars

\* C10 witness: unstake has given up for lack of reserve while the wallet
\* holds an 8-byte receipt recording more than a reserve output carries.
C10_Witness ==
    /\ lastExit = [op |-> "unstake", why |-> "InsufficientReserve"]
    /\ \E u \in UserUtxos : \E m \in MintingUtxos :
          /\ u.token.capability = "none"
          /\ Len(u.token.commitment) = AmountWidth
          /\ HexValue(u.token.commitment) > m.satoshis

\* C11: split of a receipt recording P, run with expiry E, consumes the
\* receipt and builds exactly two outputs of the receipt's category: a PT
\* with commitment (P, E) and a YT with commitment (0, E).
C11_SplitOutputs ==
    \A tx \in BuiltTxs : \A n \in tx.nft :
        tx.op = "split" =>
            /\ tx.inputs = {n}
            /\ Len(tx.outputs) = 2
            /\ \E E \in Expiries :
                  /\ tx.outputs[1].token
                        = Token(n.token.category, "none",
                                EncodeBE(HexValue(n.token.commitment),
                                         AmountWidth)
                                    \o EncodeBE(E, ExpiryWidth))
                  /\ tx.outputs[2].token
                        = Token(n.token.category, "none",
                                EncodeBE(0, AmountWidth)
                                    \o EncodeBE(E, ExpiryWidth))
                  /\ parsePrincipal(tx.outputs[1].token.commitment)
                        = HexValue(n.token.commitment)
                  /\ parseExpiry(tx.outputs[1].token.commitment) = E
                  /\ parsePrincipal(tx.outputs[2].token.commitment) = 0
                  /\ parseExpiry(tx.outputs[2].token.commitment) = E

\* C11 witness: the ledger accepted a split of a receipt recording a
\* positive principal, and the PT and YT it created are unspent.
C11_Witness ==
    \E i \in DOMAIN chain :
        /\ chain[i].op = "split"
        /\ chain[i].amount > 0
        /\ \E n \in chain[i].nft : Len(n.token.commitment) = AmountWidth
        /\ Created(chain[i], i) \subseteq utxos

\* A token whose commitment has the 12-byte PT / YT layout.
IsYieldToken(u) == Len(u.token.commitment) = AmountWidth + ExpiryWidth

\* C12: no merge transaction is built for a PT and a YT whose expiries
\* differ.
C12_IncompatibleExpiry ==
    \A tx \in BuiltTxs : \A pt \in tx.nft : \A yt \in tx.nft :
        (tx.op = "merge" /\ IsYieldToken(pt) /\ IsYieldToken(yt)) =>
            parseExpiry(pt.token.commitment) = parseExpiry(yt.token.commitment)

\* The PT a split of the chain created (its output 0).
IsPT(u) ==
    /\ u.txid \in DOMAIN chain
    /\ chain[u.txid].op = "split"
    /\ u.vout = 0

\* The YT a split of the chain created (its output 1), or the YT a claim
\* on such a YT re-emitted.
RECURSIVE IsYT(_)
IsYT(u) ==
    /\ u.txid \in DOMAIN chain
    /\ \/ chain[u.txid].op = "split" /\ u.vout = 1
       \/ /\ chain[u.txid].op = "claim"
          /\ u.token.category # ""
          /\ \A y \in chain[u.txid].nft : IsYT(y)

\* C13: merge of PT (P, E) and YT (Y, E) consumes both and builds exactly
\* one output, a receipt of the PT's category whose 8-byte commitment
\* decodes to P; the output carries the dust amount, so Y is in no output.
C13_MergeOutputs ==
    \A tx \in BuiltTxs :
        (/\ tx.op = "merge"
         /\ IsPT(tx.listed[1]) /\ IsYT(tx.listed[2])
         /\ parseExpiry(tx.listed[1].token.commitment)
               = parseExpiry(tx.listed[2].token.commitment))
        => /\ tx.inputs = {tx.listed[1], tx.listed[2]}
           /\ tx.ninputs = 2
           /\ Len(tx.outputs) = 1
           /\ tx.outputs[1]
                 = Output("user", DustSats,
                          Token(tx.listed[1].token.category, "none",
                                EncodeBE(parsePrincipal(
                                             tx.listed[1].token.commitment),
                                         AmountWidth)))
           /\ HexValue(tx.outputs[1].token.commitment)
                 = parsePrincipal(tx.listed[1].token.commitment)

\* C13 witness: the ledger accepted a merge of a PT with a YT of the same
\* expiry that had accrued a yield different from the principal.
C13_Witness ==
    \E i \in DOMAIN chain :
        /\ chain[i].op = "merge"
        /\ IsPT(chain[i].listed[1]) /\ IsYT(chain[i].listed[2])
        /\ parseExpiry(chain[i].listed[1].token.commitment)
              = parseExpiry(chain[i].listed[2].token.commitment)
        /\ parsePrincipal(chain[i].listed[2].token.commitment) > 0
        /\ parsePrincipal(chain[i].listed[2].token.commitment)
              # parsePrincipal(chain[i].listed[1].token.commitment)

\* C14: a split of the receipt a stake of amount P produced builds a PT
\* whose principal decodes to P, and a merge of the PT and YT of that split
\* builds a receipt whose commitment decodes to P.
C14_SplitMergeInverse ==
    \A tx \in BuiltTxs :
        /\ tx.op = "split" =>
              \A n \in tx.nft :
                  IsStakeReceipt(n) =>
                      parsePrincipal(tx.outputs[1].token.commitment)
                          = chain[n.txid].amount
        /\ (/\ tx.op = "merge"
            /\ IsPT(tx.listed[1]) /\ IsYT(tx.listed[2])
            /\ tx.listed[1].txid = tx.listed[2].txid) =>
              \A n \in chain[tx.listed[1].txid].nft :
                  IsStakeReceipt(n) =>
                      HexValue(tx.outputs[1].token.commitment)
                          = chain[n.txid].amount

\* The split/merge round trip without the stake: the receipt a merge
\* builds from the PT and YT of one split carries the commitment of the
\* receipt that split consumed.
SplitMergeRestoresCommitment ==
    \A tx \in BuiltTxs :
        (/\ tx.op = "merge"
         /\ IsPT(tx.listed[1]) /\ IsYT(tx.listed[2])
         /\ tx.listed[1].txid = tx.listed[2].txid) =>
            \A n \in chain[tx.listed[1].txid].nft :
                Len(n.token.commitment) = AmountWidth =>
                    tx.outputs[1].token.commitment = n.token.commitment

\* One redeem run on the PT of a split, seen as a step: before the expiry
\* it ends with NotYetMatured and leaves ledger and run untouched; from the
\* expiry on it builds the transaction it then sends.
C15_RedeemStep ==
    \A point \in OutPoints : \A t \in CurrentTimes :
        \A pt \in FindNft(point) :
            (handleRedeemPT(1, point, t) /\ IsPT(pt) /\ IsYieldToken(pt)) =>
                IF t < parseExpiry(pt.token.commitment)
                THEN /\ lastExit' = [op |-> "redeem", why |-> "NotYetMatured"]
                     /\ UNCHANGED <<utxos, chain, pending, status>>
                ELSE /\ status'[1] = "built"
                     /\ pending'[1].op = "redeem"
                     /\ pending'[1].nft = {pt}

\* C15: redeemPT on PT (P, E) with currentTime < E fails with
\* NotYetMatured and submits nothing; with currentTime = E it goes through.
C15_RedemptionGating == [][C15_RedeemStep]_vars

\* C15 witness: a redeem run one tick before the expiry has ended with
\* NotYetMatured, and the ledger then accepted a redeem of that PT.
C15_Witness ==
    /\ lastExit = [op |-> "redeem", why |-> "NotYetMatured"]
    /\ \E i \in DOMAIN chain : \E pt \in chain[i].nft :
          /\ chain[i].op = "redeem"
          /\ IsPT(pt) /\ IsYieldToken(pt)
          /\ parseExpiry(pt.token.commitment) \in CurrentTimes
          /\ parseExpiry(pt.token.commitment) - 1 \in CurrentTimes

\* C16: a redeem of PT (P, E) consumes the PT and builds exactly one
\* output, a token-less payout of P; of the accepted redeems no two
\* consumed the same PT.
C16_RedeemOutputs ==
    /\ \A tx \in BuiltTxs : \A pt \in tx.nft :
          (tx.op = "redeem" /\ IsPT(pt) /\ IsYieldToken(pt)) =>
              /\ tx.inputs = {pt}
              /\ tx.ninputs = 1
              /\ tx.outputs
                    = << Output("user",
                                parsePrincipal(pt.token.commitment),
                                NoToken) >>
    /\ \A i \in DOMAIN chain : \A j \in DOMAIN chain :
          (i # j /\ chain[i].op = "redeem" /\ chain[j].op = "redeem") =>
              chain[i].nft \cap chain[j].nft = {}

\* C16 witness: the ledger accepted a redeem of a PT with a positive
\* principal, a later redeem run no longer found the PT, and the ledger
\* would still have accepted a transaction.
C16_Witness ==
    /\ lastExit = [op |-> "redeem", why |-> "NftNotFound"]
    /\ Len(chain) < 1 + MaxClaimTx
    /\ \E i \in DOMAIN chain : \E pt \in chain[i].nft :
          /\ chain[i].op = "redeem"
          /\ IsPT(pt) /\ IsYieldToken(pt)
          /\ chain[i].outputs[1].amount > 0

\* C17: a claim on YT (Y, E) consumes the YT; run with currentTime >= E it
\* builds one token-less payout of Y and no YT output; run with
\* currentTime < E it builds exactly one output, a YT of the same category
\* and expiry carrying the dust amount, and no payout.
C17_ClaimOutputs ==
    \A tx \in BuiltTxs : \A yt \in tx.nft :
        (tx.op = "claim" /\ IsYT(yt) /\ IsYieldToken(yt)) =>
            /\ tx.inputs = {yt}
            /\ Len(tx.outputs) = 1
            /\ IF tx.time >= parseExpiry(yt.token.commitment)
               THEN tx.outputs[1]
                      = Output("user", parsePrincipal(yt.token.commitment),
                               NoToken)
               ELSE /\ tx.outputs[1].to = "user"
                    /\ tx.outputs[1].amount = DustSats
                    /\ tx.outputs[1].token.category = yt.token.category
                    /\ tx.outputs[1].token.capability = "none"
                    /\ IsYieldToken(tx.outputs[1])
                    /\ parseExpiry(tx.outputs[1].token.commitment)
                          = parseExpiry(yt.token.commitment)

\* C17 witness: the ledger accepted a claim before the expiry and then a
\* claim at the expiry that paid out the yield the first one accrued.
C17_Witness ==
    \E i \in DOMAIN chain : \E j \in DOMAIN chain : \E yt \in chain[j].nft :
        /\ chain[i].op = "claim" /\ chain[j].op = "claim"
        /\ yt \in Created(chain[i], i)
        /\ IsYT(yt)
        /\ chain[i].time < parseExpiry(yt.token.commitment)
        /\ chain[j].time >= parseExpiry(yt.token.commitment)
        /\ chain[j].outputs[1].amount > 0
        /\ chain[j].outputs[1].token = NoToken

\* The CURRENT_TIME of the claim that emitted this YT; 0 for the YT a split
\* minted, whose clock then starts at the mint.
LastClaimTime(yt) == chain[yt.txid].time

\* The largest rate a claim is run with.
MaxYieldRate == CHOOSE r \in YieldRates : \A q \in YieldRates : q <= r

\* The yield of a full term at the largest rate, for a YT minted at time 0.
FullTermYield(expiry) == (expiry * MaxYieldRate) \div BasisPoints

\* One claim run on a YT before its expiry, seen as a step: it builds a
\* transaction, and the YT it emits carries the old yield plus the yield
\* of the time elapsed since the mint or the last claim.
C18_ClaimStep ==
    \A point \in OutPoints : \A t \in CurrentTimes : \A r \in YieldRates :
        \A yt \in FindNft(point) :
            (/\ handleClaimYield(1, point, t, r)
             /\ IsYT(yt) /\ IsYieldToken(yt)
             /\ t < parseExpiry(yt.token.commitment)) =>
                /\ status'[1] = "built"
                /\ pending'[1].op = "claim"
                /\ parsePrincipal(pending'[1].outputs[1].token.commitment)
                      = parsePrincipal(yt.token.commitment)
                          + ((t - LastClaimTime(yt)) * r) \div BasisPoints

\* C18: claimYield on YT (Y, E) with currentTime < E succeeds for every
\* currentTime and yieldRate and emits a YT with yield
\* Y + floor(elapsed * yieldRate / 10000), elapsed being the time since the
\* mint or the last claim.
C18_ClaimAccrual == [][C18_ClaimStep]_vars

\* C19: along a YT lineage the accrued yield never exceeds the yield of
\* the full term: no YT that a claim emits records more than
\* floor(E * yieldRate / 10000).
C19_YieldCapped ==
    \A tx \in BuiltTxs : \A yt \in tx.nft :
        (/\ tx.op = "claim" /\ IsYT(yt) /\ IsYieldToken(yt)
         /\ tx.outputs[1].token.category # "") =>
            parsePrincipal(tx.outputs[1].token.commitment)
                <= FullTermYield(parseExpiry(yt.token.commitment))

C21_FullTermAtExpiry ==
    \A tx \in BuiltTxs : \A yt \in tx.nft :
        (/\ tx.op = "claim" /\ IsYT(yt) /\ IsYieldToken(yt)
         /\ tx.time = parseExpiry(yt.token.commitment)) =>
            tx.outputs[1].amount
                = (parseExpiry(yt.token.commitment) * tx.rate) \div BasisPoints

\* C22: no add transaction is built for ticks with tickLower >= tickUpper
\* or for a tick outside the 4-byte tick domain, whatever the amounts.
C22_InvalidTickRange ==
    \A tx \in BuiltTxs :
        tx.op = "add" =>
            /\ tx.args[3] < tx.args[4]
            /\ InRange(tx.args[3], TickWidth)
            /\ InRange(tx.args[4], TickWidth)

\* The part of C22 the script does keep: no add transaction is built for a
\* tick that does not fit the commitment's four bytes.
AddTicksFitWidth ==
    \A tx \in BuiltTxs :
        tx.op = "add" =>
            InRange(tx.args[3], TickWidth) /\ InRange(tx.args[4], TickWidth)

\* C23: no swap transaction is built whose output amount, amountIn minus
\* the fee, is below the minAmountOut it was run with.
C23_SlippageExceeded ==
    \A tx \in BuiltTxs :
        tx.op = "swap" => tx.outputs[2].amount >= tx.args[3]

\* Fee rates, in basis points, the swap quote is evaluated at.
FeeBpsValues == {0, 1, 30, 10000}

\* Amounts the swap quote is evaluated at, besides those swap is run with.
QuoteAmounts == AmountsIn \cup {0, 1, 9999, 100000}

\* fee is trunc(amountIn * feeBps / 10000): the largest integer whose
\* multiple of 10000 does not exceed amountIn * feeBps.
IsTruncatedFee(fee, amountIn, feeBps) ==
    /\ fee * BasisPoints <= amountIn * feeBps
    /\ amountIn * feeBps < (fee + 1) * BasisPoints

RECURSIVE FeesAccrued(_, _)
FeesAccrued(k, leg) ==
    IF k = 0 THEN 0
    ELSE FeesAccrued(k - 1, leg)
           + (IF chain[k].op = "swap"
                  /\ leg = (IF chain[k].args[1] THEN "token0" ELSE "token1")
              THEN chain[k].args[2] - chain[k].outputs[2].amount
              ELSE 0)

\* The fee the first k accepted transactions paid out on the given leg.
RECURSIVE FeesCollected(_, _)
FeesCollected(k, leg) ==
    IF k = 0 THEN 0
    ELSE FeesCollected(k - 1, leg)
           + (IF chain[k].op = "collect"
              THEN chain[k].outputs[IF leg = "token0" THEN 3 ELSE 4].amount
              ELSE 0)

\* C25: on each leg the accepted collects have paid out at most the fee
\* the accepted swaps accrued, which bounds the fee of every position.
C25_FeesBounded ==
    \A k \in DOMAIN chain : \A leg \in {"token0", "token1"} :
        FeesCollected(k, leg) <= FeesAccrued(k, leg)

\* C26: a remove consumes the position and re-emits none, and returns on
\* each leg an amount covered by the position: at most what the add that
\* minted the position put into the pool, and nothing for a position of
\* liquidity zero.
C26_RemoveProportional ==
    \A tx \in BuiltTxs : \A pos \in tx.nft :
        tx.op = "remove" =>
            /\ tx.inputs = {pos}
            /\ \A i \in DOMAIN tx.outputs :
                  tx.outputs[i].token.category # "position"
            /\ (pos.txid \in DOMAIN chain /\ chain[pos.txid].op = "add") =>
                  /\ tx.outputs[2].amount <= chain[pos.txid].args[1]
                  /\ tx.outputs[3].amount <= chain[pos.txid].args[2]
            /\ parsePositionCommitment(pos.token.commitment).liquidity = 0
                  => tx.outputs[2].amount = 0 /\ tx.outputs[3].amount = 0

\* One step, seen from the ledger: a run that ends on a failed check or
\* on a rejection changes no unspent output and submits nothing, and the
\* unspent outputs change only by one whole transaction: every input it
\* listed is spent and every output it listed exists.
C27_Step ==
    /\ lastExit' # lastExit =>
          /\ UNCHANGED <<utxos, chain>>
          /\ lastExit'.why # "Rejected" => UNCHANGED <<pending, status>>
    /\ (utxos' # utxos \/ chain' # chain) =>
          \E p \in Procs :
              /\ status[p] = "built"
              /\ pending[p].op # "none"
              /\ chain' = Append(chain, pending[p])
              /\ pending[p].inputs \subseteq utxos
              /\ utxos' \cap pending[p].inputs = {}
              /\ \A i \in DOMAIN pending[p].outputs :
                    \E u \in utxos' :
                        /\ u.txid = Len(chain') /\ u.vout = i - 1
                        /\ u.satoshis = pending[p].outputs[i].amount
                        /\ u.token = pending[p].outputs[i].token
              /\ Cardinality(utxos')
                    = Cardinality(utxos) - Cardinality(pending[p].inputs)
                        + Len(pending[p].outputs)

ExpectedWidth(op) ==
    IF op \in {"unstake", "split"} THEN AmountWidth ELSE AmountWidth + ExpiryWidth

\* C28: no unstake, split, merge, redeemPT or claimYield transaction is
\* built on an input token whose commitment has not the fixed width of
\* the kind the operation expects (receipt 8 bytes, PT and YT 12 bytes).
C28_MalformedRejected ==
    \A tx \in BuiltTxs :
        tx.op \in {"unstake", "split", "merge", "redeem", "claim"} =>
            \A u \in tx.nft : Len(u.token.commitment) = ExpectedWidth(tx.op)

\* Field values at and inside the edges of each width.
TickValues == {0, 1, 100, Pow(Radix, TickWidth) - 1}

WideValues == {0, 1, 1000, 100000, Pow(Radix, AmountWidth) - 1}

ExpiryValues == {0, 5, 9, Pow(Radix, ExpiryWidth) - 1}

PositionRoundTrip(tickLower, tickUpper, liquidity) ==
    LET c == buildPositionCommitment(tickLower, tickUpper, liquidity)
    IN  /\ Len(c) = PositionWidth
        /\ parsePositionCommitment(c)
              = [tickLower |-> tickLower, tickUpper |-> tickUpper,
                 liquidity |-> liquidity]

\* C29: decoding an encoded commitment returns the encoded fields, and
\* the encoding has the kind's fixed length, for position commitments
\* (tickLower, tickUpper, liquidity), PT commitments (principal, expiry)
\* and YT commitments (yield, expiry); the position token of every add
\* transaction decodes to the ticks and the liquidity it was built from.
\* The laws over field values do not read the ledger, so they are
\* evaluated in the states that precede the first accepted transaction.
C29_RoundTrip ==
    /\ chain = <<>> =>
          \A tl \in TickValues, tu \in TickValues, l \in WideValues :
              PositionRoundTrip(tl, tu, l)
    /\ chain = <<>> =>
          \A a \in WideValues, e \in ExpiryValues :
            /\ Len(buildPTCommitment(a, e)) = AmountWidth + ExpiryWidth
            /\ parsePrincipal(buildPTCommitment(a, e)) = a
            /\ parseExpiry(buildPTCommitment(a, e)) = e
            /\ Len(buildYTCommitment(a, e)) = AmountWidth + ExpiryWidth
            /\ parsePrincipal(buildYTCommitment(a, e)) = a
            /\ parseExpiry(buildYTCommitment(a, e)) = e
    /\ \A tx \in BuiltTxs :
            tx.op = "add" =>
                /\ Len(tx.outputs[2].token.commitment) = PositionWidth
                /\ parsePositionCommitment(tx.outputs[2].token.commitment)
                      = [tickLower |-> tx.args[3], tickUpper |-> tx.args[4],
                         liquidity |->
                             calculateLiquidity(tx.args[1], tx.args[2])]

\* C29 witness: the ledger holds a position token whose three fields are
\* pairwise different and whose liquidity is not a palindrome of digits.
C29_Witness ==
    \E u \in UserUtxos :
        /\ u.token.category = "position"
        /\ parsePositionCommitment(u.token.commitment)
              = [tickLower |-> 0, tickUpper |-> 100, liquidity |-> 1000]

\* C30: every token a transaction emits carries the category of a token
\* it consumed, and no transaction is built on input tokens of different
\* categories or on a token outside the facet's category.
C30_CategoryMismatch ==
    \A tx \in BuiltTxs :
        tx.op \in {"unstake", "split", "merge", "redeem"} =>
            /\ \A u \in tx.nft : \A v \in tx.nft :
                    u.token.category = v.token.category
            /\ \A u \in tx.nft : u.token.category = MockCategory
            /\ \A i \in DOMAIN tx.outputs :
                    tx.outputs[i].token.capability = "none" =>
                        \E u \in tx.nft :
                            u.token.category = tx.outputs[i].token.category

\* The step in which the ledger takes a split or a merge: the split's
\* receipt is spent and its PT and YT both exist after the step; both
\* tokens the merge listed are spent and its receipt exists after the step.
C31_Step ==
    chain' # chain =>
        LET txid == Len(chain')
            tx == chain'[txid]
        IN  /\ tx.op = "split" =>
                  /\ tx.nft \subseteq utxos
                  /\ tx.nft \cap utxos' = {}
                  /\ \A vout \in {0, 1} :
                        \E u \in utxos' \ utxos :
                            /\ u.txid = txid /\ u.vout = vout
                            /\ u.token = tx.outputs[vout + 1].token
            /\ tx.op = "merge" =>
                  /\ {tx.listed[1], tx.listed[2]} \subseteq utxos
                  /\ {tx.listed[1], tx.listed[2]} \cap utxos' = {}
                  /\ tx.listed[1] # tx.listed[2]
                  /\ \E u \in utxos' \ utxos :
                        /\ u.txid = txid /\ u.vout = 0
                        /\ u.token = tx.outputs[1].token

\* C31: split and merge are each one atomic step: no step spends a
\* split's receipt and leaves only one of its PT and YT, and no step spends
\* only one of a merge's PT and YT or makes its receipt while one of the
\* two is still unspent.
C31_SplitMergeAtomic == [][C31_Step]_vars

\* C31 witness: the ledger took a split and then the merge of the two
\* tokens that split made.
C31_Witness ==
    \E i \in DOMAIN chain : \E j \in DOMAIN chain :
        /\ i < j
        /\ chain[i].op = "split"
        /\ chain[j].op = "merge"
        /\ chain[j].nft = Created(chain[i], i)
        /\ Created(chain[i], i) \cap utxos = {}

\* The split at the root of a YT's lineage.
RECURSIVE YTOrigin(_)
YTOrigin(u) ==
    IF chain[u.txid].op = "split" THEN u.txid
    ELSE YTOrigin(CHOOSE y \in chain[u.txid].nft : TRUE)

\* C32: every YT a claimYield transaction emits carries the expiry of the
\* YT it consumed, which is the expiry the split of its lineage recorded,
\* over any sequence of claims.
C32_ExpiryImmutable ==
    \A tx \in BuiltTxs : \A yt \in tx.nft :
        (/\ tx.op = "claim"
         /\ IsYT(yt)
         /\ tx.outputs[1].token.category # "") =>
            /\ Len(tx.outputs[1].token.commitment) = AmountWidth + ExpiryWidth
            /\ parseExpiry(tx.outputs[1].token.commitment)
                  = parseExpiry(yt.token.commitment)
            /\ parseExpiry(tx.outputs[1].token.commitment)
                  = parseExpiry(chain[YTOrigin(yt)].outputs[2].token.commitment)

\* C32 witness: the ledger took a claim on a YT that an earlier claim had
\* re-emitted, and that second claim re-emitted the YT again.
C32_Witness ==
    \E i \in DOMAIN chain : \E yt \in chain[i].nft :
        /\ chain[i].op = "claim"
        /\ IsYT(yt)
        /\ chain[yt.txid].op = "claim"
        /\ chain[i].outputs[1].token.category # ""
        /\ parseExpiry(chain[i].outputs[1].token.commitment) \in Expiries

\* C33: the position token a collect transaction re-emits has the
\* commitment of the position token it consumes, digit for digit, so
\* tickLower, tickUpper and liquidity are unchanged.
C33_CollectKeepsPosition ==
    \A tx \in BuiltTxs : \A pos \in tx.inputs :
        tx.op = "collect" =>
            /\ tx.inputs = {pos}
            /\ tx.outputs[2].token.capability = "none"
            /\ tx.outputs[2].token.commitment = pos.token.commitment
            /\ parsePositionCommitment(tx.outputs[2].token.commitment)
                  = parsePositionCommitment(pos.token.commitment)

\* C33 witness: the ledger took a collect on a position of liquidity 1000
\* in ticks 0 to 100, and the position it re-emitted is unspent.
C33_Witness ==
    \E i \in DOMAIN chain : \E u \in UserUtxos :
        /\ chain[i].op = "collect"
        /\ u.txid = i /\ u.vout = 1
        /\ u.token.commitment = buildPositionCommitment(0, 100, 1000)
        /\ \A pos \in chain[i].inputs : pos \notin utxos

\* min(a, b), written apart from the script's own comparison.
Min(a, b) == CHOOSE m \in {a, b} : m <= a /\ m <= b

NothingBuilt ==
    /\ UNCHANGED <<utxos, chain, pending, status>>
    /\ lastExit'.why \in {"Error", "NftNotFound"}

\* The width, in values: [0, Radix^w - 1].
Fits(n, w) == 0 <= n /\ n <= Pow(Radix, w) - 1

\* One run with a field that does not fit its width builds nothing: a
\* split with such an expiry, a claim whose new yield is such, an add with
\* such a tick or such a liquidity.
C35_Step ==
    /\ \A point \in OutPoints : \A expiry \in RangeExpiries :
          (handleSplit(1, point, expiry) /\ ~Fits(expiry, ExpiryWidth))
              => NothingBuilt
    /\ \A point \in OutPoints : \A t \in CurrentTimes :
          \A yieldRate \in RangeRates : \A yt \in FindNft(point) :
          (/\ handleClaimYield(1, point, t, yieldRate)
           /\ ~Matured(t, yt.token.commitment)
           /\ ~Fits(parsePrincipal(yt.token.commitment)
                       + TruncDiv(t * yieldRate, BasisPoints), AmountWidth))
              => NothingBuilt
    /\ \A a \in RangeAmounts : \A t \in RangeTicks :
          (/\ addLiquidity(1, a[1], a[2], t[1], t[2])
           /\ \/ ~Fits(t[1], TickWidth)
              \/ ~Fits(t[2], TickWidth)
              \/ ~Fits(Min(a[1], a[2]), AmountWidth))
              => NothingBuilt

\* C35: encoding rejects a field outside its width instead of wrapping:
\* no commitment is built from a principal, yield or liquidity outside
\* [0, Radix^8 - 1] or from a tick or expiry outside [0, Radix^4 - 1],
\* negative values included: the run ends and nothing is built.
C35_OutOfRange == [][C35_Step]_vars

\* C35 witness: after the ledger accepted a transaction of these runs, a
\* run has ended on a range error and left no transaction at `.send()`.
C35_Witness ==
    /\ Len(chain) = 1 + MaxRangeTx
    /\ lastExit.op \in {"split", "add"}
    /\ lastExit.why = "Error"
    /\ status[1] = "idle"

\* C36: rates in basis points are capped at 10000: for every fee rate in
\* [0, 10000] the swap output lies between 0 and amountIn, and no claim
\* transaction is built with a yield rate outside [0, 10000].
C36_RatesCapped ==
    /\ chain = <<>> =>
          \A amountIn \in QuoteAmounts : \A fee \in FeeBpsValues :
          \A zeroForOne \in BOOLEAN :
              /\ 0 <= calculateSwapOutput(amountIn, zeroForOne, fee)
              /\ calculateSwapOutput(amountIn, zeroForOne, fee) <= amountIn
    /\ \A tx \in BuiltTxs :
          tx.op = "claim" => 0 <= tx.rate /\ tx.rate <= BasisPoints

\* C37: each operation takes only tokens of the kind it is defined on: no
\* redeemPT transaction is built on a token minted as a YT, no claimYield
\* transaction on a token minted as a PT, and no merge with a PT as its YT
\* leg or a YT as its PT leg.
C37_KindsKept ==
    \A tx \in BuiltTxs :
        /\ tx.op = "redeem" => \A u \in tx.nft : ~IsYT(u)
        /\ tx.op = "claim" => \A u \in tx.nft : ~IsPT(u)
        /\ tx.op = "merge" => ~IsPT(tx.listed[2]) /\ ~IsYT(tx.listed[1])

\* One run of remove or collect that reaches `.send()` lists as its input
\* the position at the outpoint the caller named, and no other.
C38_Step ==
    /\ \A point \in OutPoints : \A a \in DexAmounts :
          (removeLiquidity(1, point, a[1], a[2]) /\ status'[1] = "built")
              => \A u \in pending'[1].inputs : <<u.txid, u.vout>> = point
    /\ \A point \in OutPoints : \A f \in FeeAmounts :
          (collect(1, point, f[1], f[2]) /\ status'[1] = "built")
              => \A u \in pending'[1].inputs : <<u.txid, u.vout>> = point

\* C38: removeLiquidity and collect consume exactly the position token
\* named by POSITION_TXID and POSITION_VOUT; of several position tokens
\* in the wallet no other one is consumed.
C38_NamedPosition == [][C38_Step]_vars

\* The reserve token: the newest minting NFT at the contract.
ReserveTokens ==
    {m \in MintingUtxos : \A n \in MintingUtxos : n.txid <= m.txid}

\* The unspent receipts of the facet, and the unspent PTs.
LiveReceipts ==
    {u \in UserUtxos :
        /\ u.token.category = MockCategory
        /\ u.token.capability = "none"
        /\ Len(u.token.commitment) = AmountWidth}

LivePTs == {u \in UserUtxos : IsPT(u)}

RECURSIVE SumRecorded(_)
SumRecorded(S) ==
    IF S = {} THEN 0
    ELSE LET u == CHOOSE x \in S : TRUE
         IN  parsePrincipal(u.token.commitment) + SumRecorded(S \ {u})

\* C39: in every state the reserve token's value is non-negative and at
\* least the sum of the amounts recorded in the unspent receipts plus the
\* principals recorded in the unspent PTs.
C39_Solvency ==
    \A m \in ReserveTokens :
        /\ m.satoshis >= 0
        /\ m.satoshis >= SumRecorded(LiveReceipts) + SumRecorded(LivePTs)

\* The stake whose principal a token carries, 0 when it carries none: a
\* stake's receipt carries its own, a split's PT that of the split
\* receipt, a merge's receipt that of the token listed as PT, and an NFT
\* any other transaction emits that of the token it consumed.
RECURSIVE PrincipalOrigin(_)
PrincipalOrigin(u) ==
    IF u.txid \notin DOMAIN chain THEN 0
    ELSE LET tx == chain[u.txid] IN
         IF tx.op = "stake" THEN (IF u.vout = 1 THEN u.txid ELSE 0)
         ELSE IF tx.op = "split"
         THEN (IF u.vout = 0
               THEN PrincipalOrigin(CHOOSE n \in tx.nft : TRUE) ELSE 0)
         ELSE IF tx.op = "merge" THEN PrincipalOrigin(tx.listed[1])
         ELSE IF tx.nft # {} /\ u.token.capability = "none"
         THEN PrincipalOrigin(CHOOSE n \in tx.nft : TRUE)
         ELSE 0

\* The accepted transactions that paid out the principal of stake k.
Payouts(k) ==
    {i \in DOMAIN chain :
        /\ chain[i].op \in {"unstake", "redeem"}
        /\ \E n \in chain[i].nft : PrincipalOrigin(n) = k}

====
